---- MODULE Spec2Model ----
(***************************************************************************)
(* Model of src/leiden_algt.py: multilevel modularity optimisation         *)
(* (Louvain and Leiden variants).                                          *)
(*                                                                         *)
(* Graphs are networkx.Graph values: a node set and a symmetric weight     *)
(* function, weight 0 meaning "no edge"; a self-loop is w[<<n,n>>] > 0.     *)
(* Partitions are Python dicts: functions from nodes to community ids.     *)
(*                                                                         *)
(* Arithmetic.  The code computes modularity in floating point.  Every     *)
(* value it computes on a graph of total weight m is a multiple of         *)
(* 1/(4 m^2); the model keeps such a value as an exact fraction            *)
(* [num, den] with den = 4 m^2 (den = 1 for the literals 0.0 and -1.0)     *)
(* and compares fractions by cross-multiplication.  Rounding error of      *)
(* the floating-point evaluation is not modelled: two values that differ   *)
(* here differ by 1/(4 m^2) or more, far above the rounding error, and a   *)
(* gain that is exactly zero here is taken to be zero in the code.         *)
(*                                                                         *)
(* Orders.  random.shuffle and the iteration order of Python sets are      *)
(* modelled as nondeterministic choices.                                   *)
(***************************************************************************)
EXTENDS Integers, Sequences, FiniteSets, TLC

\* ------------------------------------------------------------------ bounds
\* Nodes of the enumerated input graphs are 1..NumNodes.
NumNodes == 3
\* The enumerated input graphs have total edge weight at most MaxTotal.
MaxTotal == 3
\* Total edge weight of the graphs handed to a single function call.
MaxTotalFn == 2

\* ------------------------------------------------------------ arithmetic
\* Seja(v, F) is F(v), with v evaluated once however often F uses it
Seja(v, F(_)) == CHOOSE r \in {F(x) : x \in {v}} : TRUE

Rat(n, d) == [num |-> n, den |-> d]
RatLT(a, b) == \E x \in {a}, y \in {b} : x.num * y.den < y.num * x.den
RatLE(a, b) == \E x \in {a}, y \in {b} : x.num * y.den <= y.num * x.den
RatEq(a, b) == \E x \in {a}, y \in {b} : x.num * y.den = y.num * x.den
\* a - b, for two fractions of the same graph (same denominator) or literals
RatSub(a, b) ==
    Seja(<<a, b>>, LAMBDA t :
        IF t[1].den = t[2].den THEN Rat(t[1].num - t[2].num, t[1].den)
        ELSE Rat(t[1].num * t[2].den - t[2].num * t[1].den, t[1].den * t[2].den))

\* the sum of the integers f[x], x in S, by counting: f[x] units for a
\* positive f[x], less -f[x] units for a negative one
SumF(f, S) ==
    Cardinality(UNION {{x} \X (1..f[x]) : x \in S})
    - Cardinality(UNION {{x} \X (1..(0 - f[x])) : x \in S})

MaxOf(S) == CHOOSE x \in S : \A y \in S : y <= x

Range(f) == {f[x] : x \in DOMAIN f}

\* ---------------------------------------------------------------- graphs
\* degree with a self-loop counted once
degree_laco_uma_vez(G, n) ==
    SumF([v \in G.nodes |-> G.w[<<n, v>>]], G.nodes)

\* G.degree(n, weight='weight'): incident weights, a self-loop counted twice
degree(G, n) ==
    SumF([v \in G.nodes |-> G.w[<<n, v>>]], G.nodes) + G.w[<<n, n>>]

\* G.subgraph(S).size(weight='weight'): half the degree sum inside S, which
\* counts every edge with both ends in S once, a self-loop included once
subgraph_size(G, S) ==
    LET T == S \cap G.nodes
    IN  SumF([n \in T |-> SumF([v \in T |-> G.w[<<n, v>>]], T) + G.w[<<n, n>>]], T) \div 2

\* G.size(weight='weight')
size(G) == subgraph_size(G, G.nodes)

\* H.neighbors(no) for H = G.subgraph(Hn); a self-loop makes no its own neighbour
neighbors(G, Hn, no) == {v \in Hn : G.w[<<no, v>>] > 0}

\* --------------------------------------------------- auxiliary functions
agrupar_por_comunidade(particao) ==
    [c \in Range(particao) |-> {n \in DOMAIN particao : particao[n] = c}]

calc_propriedades(G, nodes_in_community) ==
    [grau_total |-> SumF([n \in nodes_in_community |-> degree(G, n)], nodes_in_community),
     peso_total |-> subgraph_size(G, nodes_in_community)]

\* peso/m - (grau/m)^2, times 4 m^2: the degree fraction over m, not 2m
ContribSemDobrar(m, peso, grau) == 4 * m * peso - 4 * grau * grau

\* peso/m - (grau/(2m))^2, times 4 m^2
Contrib(m, peso, grau) == Seja(grau, LAMBDA g : 4 * m * peso - g * g)

calcular_modularidade(G, particao) ==
    Seja(agrupar_por_comunidade(particao), LAMBDA comunidades :
    Seja(size(G), LAMBDA m :
        IF m = 0 THEN Rat(0, 1)
        ELSE Rat(SumF([id_com \in DOMAIN comunidades |->
                        Seja(calc_propriedades(G, comunidades[id_com]), LAMBDA p :
                            Contrib(m, p.peso_total, p.grau_total))],
                      DOMAIN comunidades),
                 4 * m * m)))

\* sum of the weights of no's edges into community cid (G.adj[no] holds a
\* self-loop once, under the key no)
KPara(G, particao, no, cid) ==
    LET V == {v \in G.nodes : G.w[<<no, v>>] > 0 /\ particao[v] = cid}
    IN  SumF([v \in V |-> G.w[<<no, v>>]], V)

\* the gain with its sign reversed: contrib_antes - contrib_depois
calc_delta_q_invertido(G, particao, no_a_mover, id_comunidade_alvo) ==
    LET id_comunidade_atual == particao[no_a_mover]
        nos_em_alvo == {n \in DOMAIN particao : particao[n] = id_comunidade_alvo}
        nos_em_atual == {n \in DOMAIN particao : particao[n] = id_comunidade_atual}
    IN  Seja(size(G), LAMBDA m :
        IF m = 0 THEN Rat(0, 1)
        ELSE IF id_comunidade_atual = id_comunidade_alvo THEN Rat(0, 1)
        ELSE
        Seja(calc_propriedades(G, nos_em_atual), LAMBDA atual :
        Seja(calc_propriedades(G, nos_em_alvo), LAMBDA alvo :
        Seja(degree(G, no_a_mover), LAMBDA no_k :
            LET contrib_antes == Contrib(m, atual.peso_total, atual.grau_total)
                                 + Contrib(m, alvo.peso_total, alvo.grau_total)
                no_k_para_atual == KPara(G, particao, no_a_mover, id_comunidade_atual)
                no_k_para_alvo == KPara(G, particao, no_a_mover, id_comunidade_alvo)
                novo_grau_comun == atual.grau_total - no_k
                novo_peso_comun == atual.peso_total - no_k_para_atual
                novo_grau_alvo == alvo.grau_total + no_k
                novo_peso_alvo == alvo.peso_total + no_k_para_alvo
                contrib_depois == Contrib(m, novo_peso_comun, novo_grau_comun)
                                  + Contrib(m, novo_peso_alvo, novo_grau_alvo)
            IN  Rat(contrib_antes - contrib_depois, 4 * m * m)))))

calc_delta_q(G, particao, no_a_mover, id_comunidade_alvo) ==
    LET id_comunidade_atual == particao[no_a_mover]
        nos_em_alvo == {n \in DOMAIN particao : particao[n] = id_comunidade_alvo}
        nos_em_atual == {n \in DOMAIN particao : particao[n] = id_comunidade_atual}
    IN  Seja(size(G), LAMBDA m :
        IF m = 0 THEN Rat(0, 1)
        ELSE IF id_comunidade_atual = id_comunidade_alvo THEN Rat(0, 1)
        ELSE
        Seja(calc_propriedades(G, nos_em_atual), LAMBDA atual :
        Seja(calc_propriedades(G, nos_em_alvo), LAMBDA alvo :
        Seja(degree(G, no_a_mover), LAMBDA no_k :
            LET contrib_antes == Contrib(m, atual.peso_total, atual.grau_total)
                                 + Contrib(m, alvo.peso_total, alvo.grau_total)
                no_k_para_atual == KPara(G, particao, no_a_mover, id_comunidade_atual)
                no_k_para_alvo == KPara(G, particao, no_a_mover, id_comunidade_alvo)
                novo_grau_comun == atual.grau_total - no_k
                novo_peso_comun == atual.peso_total - no_k_para_atual
                novo_grau_alvo == alvo.grau_total + no_k
                novo_peso_alvo == alvo.peso_total + no_k_para_alvo
                contrib_depois == Contrib(m, novo_peso_comun, novo_grau_comun)
                                  + Contrib(m, novo_peso_alvo, novo_grau_alvo)
            IN  Rat(contrib_depois - contrib_antes, 4 * m * m)))))

\* aggregation that skips the edges inside a community (no self-loops made)
agrupar_grafo_sem_lacos(G, particao) ==
    LET cs == Range(particao)
        Entre(cu, cv) ==
            IF cu = cv THEN 0
            ELSE LET U == {n \in G.nodes : particao[n] = cu}
                     V == {n \in G.nodes : particao[n] = cv}
                 IN  SumF([u \in U |-> SumF([v \in V |-> G.w[<<u, v>>]], V)], U)
    IN  [nodes |-> cs, w |-> [e \in cs \X cs |-> Entre(e[1], e[2])]]

\* aggregation without add_nodes_from: only the communities an edge touches
agrupar_grafo_sem_isolados(G, particao) ==
    LET todas == Range(particao)
        Dentro(c) == {n \in G.nodes : particao[n] = c}
        cs == {c \in todas : \E u \in Dentro(c), v \in G.nodes : G.w[<<u, v>>] > 0}
        Entre(cu, cv) ==
            IF cu = cv
            THEN subgraph_size(G, Dentro(cu))
            ELSE SumF([u \in Dentro(cu) |->
                        SumF([v \in Dentro(cv) |-> G.w[<<u, v>>]], Dentro(cv))],
                      Dentro(cu))
    IN  [nodes |-> cs, w |-> [e \in cs \X cs |-> Entre(e[1], e[2])]]

\* ----------------------------------------------------------- aggregation
agrupar_grafo(G, particao) ==
    LET cs == Range(particao)
        Entre(cu, cv) ==
            IF cu = cv
            THEN subgraph_size(G, {n \in G.nodes : particao[n] = cu})
            ELSE LET U == {n \in G.nodes : particao[n] = cu}
                     V == {n \in G.nodes : particao[n] = cv}
                 IN  SumF([u \in U |-> SumF([v \in V |-> G.w[<<u, v>>]], V)], U)
    IN  [nodes |-> cs, w |-> [e \in cs \X cs |-> Entre(e[1], e[2])]]

\* ------------------------------------------------------- input families
\* values of variables that hold nothing yet: the empty dict, the graph with
\* no node, and 0 for a node or community id (nodes are numbered from 1)
SemDict == <<>>
GrafoVazio == [nodes |-> {}, w |-> <<>>]

\* the places an undirected edge can be: {u,v}, and {u} for a self-loop
Slots(N, lacos) ==
    {{u, v} : u, v \in N} \ (IF lacos THEN {} ELSE {{u} : u \in N})

\* every assignment of weights to the slots S of total at most M
RECURSIVE PesosAte(_, _)
PesosAte(S, M) ==
    IF S = {} THEN {[x \in {} |-> 0]}
    ELSE LET s == CHOOSE x \in S : TRUE
         IN  UNION {{[x \in S |-> IF x = s THEN k ELSE f[x]] :
                        f \in PesosAte(S \ {s}, M - k)} : k \in 0..M}

MkGraph(N, f) ==
    [nodes |-> N,
     w |-> [e \in N \X N |-> IF {e[1], e[2]} \in DOMAIN f THEN f[{e[1], e[2]}] ELSE 0]]

\* graphs on the nodes 1..NumNodes, integer weights, total weight <= M
Grafos(lacos, M) ==
    {MkGraph(1..NumNodes, f) : f \in PesosAte(Slots(1..NumNodes, lacos), M)}

\* a graph given by its weighted edges <<u, v, weight>>
GrafoDe(N, arestas) ==
    [nodes |-> N,
     w |-> [e \in N \X N |->
              IF \E a \in arestas : {a[1], a[2]} = {e[1], e[2]}
              THEN (CHOOSE a \in arestas : {a[1], a[2]} = {e[1], e[2]})[3]
              ELSE 0]]

\* two disjoint triangles, all weights 1
DoisTriangulos ==
    GrafoDe(1..6, {<<1, 2, 1>>, <<2, 3, 1>>, <<1, 3, 1>>,
                   <<4, 5, 1>>, <<5, 6, 1>>, <<4, 6, 1>>})

\* the path 1 - 4 - 3 - 2 with weights 1, 2, 1
Caminho4 == GrafoDe(1..4, {<<1, 4, 1>>, <<3, 4, 2>>, <<2, 3, 1>>})

\* the path 1 - 5 - 4 - 3 - 2 with weights 1, 2, 2, 1
Caminho5 == GrafoDe(1..5, {<<1, 5, 1>>, <<4, 5, 2>>, <<3, 4, 2>>, <<2, 3, 1>>})

\* four nodes whose first level leaves two communities joined by an edge
GrafoQuatro == GrafoDe(1..4, {<<1, 4, 2>>, <<2, 3, 1>>, <<2, 4, 1>>, <<3, 4, 2>>})

Singleton(N) == [no \in N |-> no]

\* every way of grouping the nodes N, each community under the name of its
\* least member
Agrupamentos(N) == {p \in [N -> N] : \A n \in N : p[n] <= n /\ p[p[n]] = p[n]}

\* ----------------------------------------------------------------- state
VARIABLES
    alg,                      \* "leiden" or "louvain": the entry point running
    G_orig,                   \* the input graph
    G,                        \* the working graph of the current level
    no_em_mapa_comunidade,    \* original node -> its node in G
    melhor_particao_geral,
    melhor_modularidade,
    modularidades_por_nivel,
    particao,                 \* the level's partition of G's nodes
    particao_atual_mapeada,   \* the last back-mapped partition
    G_novo,                   \* the last aggregated graph
    nivel,                    \* number of iterations of the level loop begun
    pc,                       \* where the program is
    \* locals of encontrar_movimentacao_local
    H,                        \* node set of the graph H (a subgraph of G)
    comunidades,
    melhorou,
    lista_nos,                \* nodes of the shuffled list not yet visited
    \* locals of refinar_particao
    particao_alvo,
    particao_refinada_final,
    novo_id_comunidade,
    ids_comunidades,          \* community ids the for loop has not reached yet
    id_comunidade,
    \* arguments and result of a single call of calc_delta_q
    no_a_mover,
    id_comunidade_alvo,
    delta_q

nivelVars == <<alg, G_orig, G, no_em_mapa_comunidade, melhor_particao_geral,
               melhor_modularidade, modularidades_por_nivel, particao,
               particao_atual_mapeada, G_novo, nivel>>
lmVars == <<H, comunidades, melhorou, lista_nos>>
refVars == <<particao_alvo, particao_refinada_final, novo_id_comunidade,
             ids_comunidades, id_comunidade>>
dqVars == <<no_a_mover, id_comunidade_alvo, delta_q>>
vars == <<nivelVars, lmVars, refVars, dqVars, pc>>

LMVazio ==
    /\ H = {} /\ comunidades = SemDict /\ melhorou = FALSE /\ lista_nos = {}
RefVazio ==
    /\ particao_alvo = SemDict /\ particao_refinada_final = SemDict
    /\ novo_id_comunidade = 0 /\ ids_comunidades = {} /\ id_comunidade = 0
DqVazio ==
    /\ no_a_mover = 0 /\ id_comunidade_alvo = 0 /\ delta_q = Rat(0, 1)

\* a visit that also takes a move of gain zero
MelhoresComunidadesNaoNegativas(Gc, Hn, com, no) ==
    LET comunidade_atual == com[no]
        candidatas == {com[v] : v \in neighbors(Gc, Hn, no)} \ {comunidade_atual}
    IN  Seja([c \in candidatas |-> calc_delta_q(Gc, com, no, c)], LAMBDA ganho :
        Seja({c \in candidatas : RatLE(Rat(0, 1), ganho[c])}, LAMBDA aceitas :
            IF aceitas = {} THEN {comunidade_atual}
            ELSE {c \in aceitas : \A d \in aceitas : RatLE(ganho[d], ganho[c])}))

\* ---------------------------------------- encontrar_movimentacao_local
\* the communities the visit of no can end in: the candidates of greatest
\* gain when that gain is positive (the first of them the set iteration
\* meets is kept), else the current one
MelhoresComunidades(Gc, Hn, com, no) ==
    LET comunidade_atual == com[no]
        vizinhos_comunidades == {com[v] : v \in neighbors(Gc, Hn, no)}
        candidatas == vizinhos_comunidades \ {comunidade_atual}
    IN  Seja([c \in candidatas |-> calc_delta_q(Gc, com, no, c)], LAMBDA ganho :
        Seja({c \in candidatas : RatLT(Rat(0, 1), ganho[c])}, LAMBDA positivas :
            IF positivas = {} THEN {comunidade_atual}
            ELSE {c \in positivas : \A d \in positivas : RatLE(ganho[d], ganho[c])}))

EmMovimentacao == pc \in {"lm_nivel", "lm_refino", "lm_chamada"}

\* while melhorou: a new sweep over a shuffled list of H's nodes
LMNovaVarredura ==
    /\ EmMovimentacao
    /\ lista_nos = {} /\ melhorou
    /\ melhorou' = FALSE
    /\ lista_nos' = H
    /\ UNCHANGED <<nivelVars, refVars, dqVars, pc, H, comunidades>>

\* one iteration of "for no in lista_nos"
LMVisitar ==
    /\ EmMovimentacao
    /\ \E no \in lista_nos :
         /\ lista_nos' = lista_nos \ {no}
         /\ \E melhor_comunidade \in MelhoresComunidades(G, H, comunidades, no) :
               IF melhor_comunidade # comunidades[no]
               THEN /\ comunidades' = [comunidades EXCEPT ![no] = melhor_comunidade]
                    /\ melhorou' = TRUE
               ELSE UNCHANGED <<comunidades, melhorou>>
    /\ UNCHANGED <<nivelVars, refVars, dqVars, pc, H>>

LMTerminou == lista_nos = {} /\ ~melhorou

\* ------------------------------------------------------ refinar_particao
\* the counter started at the greatest id in use, not above it
PrimeiroNovoIdSemSomar(p) == IF DOMAIN p = {} THEN 0 ELSE MaxOf(Range(p))

\* the counter of fresh community ids starts above every id in use
PrimeiroNovoId(p) == IF DOMAIN p = {} THEN 0 ELSE MaxOf(Range(p)) + 1

ComecarRefino(p) ==
    /\ particao_alvo' = p
    /\ particao_refinada_final' = p
    /\ novo_id_comunidade' = PrimeiroNovoId(p)
    /\ ids_comunidades' = Range(p)
    /\ id_comunidade' = 0

nos_comunidade(p, cid) == {no \in DOMAIN p : p[no] = cid}

\* the trial partition: the members of the community each under its own name
particao_unica(p, nos) == [no \in DOMAIN p |-> IF no \in nos THEN no ELSE p[no]]

\* one iteration of "for id_comunidade in ids_comunidades", up to the call of
\* encontrar_movimentacao_local
RefinarComunidade ==
    /\ pc = "refinar"
    /\ \E cid \in ids_comunidades :
         LET nos == nos_comunidade(particao_alvo, cid)
         IN  /\ ids_comunidades' = ids_comunidades \ {cid}
             /\ IF Cardinality(nos) <= 1
                THEN UNCHANGED <<id_comunidade, lmVars, pc>>
                ELSE /\ id_comunidade' = cid
                     /\ H' = nos
                     /\ comunidades' = particao_unica(particao_alvo, nos)
                     /\ melhorou' = TRUE
                     /\ lista_nos' = {}
                     /\ pc' = "lm_refino"
    /\ UNCHANGED <<nivelVars, dqVars, particao_alvo, particao_refinada_final,
                   novo_id_comunidade>>

Bijecoes(A, B) == {f \in [A -> B] : \A x, y \in A : f[x] = f[y] => x = y}

\* the rest of the iteration, after encontrar_movimentacao_local returned
RefinarJulgar ==
    /\ pc = "lm_refino" /\ LMTerminou
    /\ LET nos == nos_comunidade(particao_alvo, id_comunidade)
           comunidades_locais == [no \in nos |-> comunidades[no]]
           locais == Range(comunidades_locais)
           k == Cardinality(locais)
       IN  IF k > 1
           THEN \E mapa_id \in Bijecoes(locais,
                        novo_id_comunidade..(novo_id_comunidade + k - 1)) :
                  /\ particao_refinada_final' =
                        [no \in DOMAIN particao_refinada_final |->
                            IF no \in nos THEN mapa_id[comunidades_locais[no]]
                            ELSE particao_refinada_final[no]]
                  /\ novo_id_comunidade' = novo_id_comunidade + k
           ELSE /\ particao_refinada_final' =
                        [no \in DOMAIN particao_refinada_final |->
                            IF no \in nos THEN id_comunidade
                            ELSE particao_refinada_final[no]]
                /\ UNCHANGED novo_id_comunidade
    /\ id_comunidade' = 0
    /\ H' = {} /\ comunidades' = SemDict /\ melhorou' = FALSE /\ lista_nos' = {}
    /\ pc' = "refinar"
    /\ UNCHANGED <<nivelVars, dqVars, particao_alvo, ids_comunidades>>

\* return particao_refinada_final
RefinarRetornar ==
    /\ pc = "refinar" /\ ids_comunidades = {}
    /\ particao' = particao_refinada_final
    /\ particao_alvo' = SemDict /\ particao_refinada_final' = SemDict
    /\ novo_id_comunidade' = 0 /\ id_comunidade' = 0
    /\ pc' = "fase_b"
    /\ UNCHANGED <<alg, G_orig, G, no_em_mapa_comunidade, melhor_particao_geral,
                   melhor_modularidade, modularidades_por_nivel,
                   particao_atual_mapeada, G_novo, nivel, lmVars, dqVars,
                   ids_comunidades>>

\* ------------------------------------------------------ leiden / louvain
\* FASE B: every original node whose node in G is a key of the partition
MapearParaOriginais(mapa, p) ==
    [no_original \in {o \in DOMAIN mapa : mapa[o] \in DOMAIN p} |-> p[mapa[no_original]]]

\* top of "while True": the singleton partition and the call of
\* encontrar_movimentacao_local(G, G, particao_inicial)
IniciarNivel ==
    /\ pc = "nivel"
    /\ nivel' = nivel + 1
    /\ H' = G.nodes
    /\ comunidades' = Singleton(G.nodes)
    /\ melhorou' = TRUE
    /\ lista_nos' = {}
    /\ pc' = "lm_nivel"
    /\ UNCHANGED <<alg, G_orig, G, no_em_mapa_comunidade, melhor_particao_geral,
                   melhor_modularidade, modularidades_por_nivel, particao,
                   particao_atual_mapeada, G_novo, refVars, dqVars>>

\* encontrar_movimentacao_local returns to the level loop; leiden goes on into
\* refinar_particao(G, particao)
LMRetornarAoNivel ==
    /\ pc = "lm_nivel" /\ LMTerminou
    /\ particao' = comunidades
    /\ H' = {} /\ comunidades' = SemDict /\ melhorou' = FALSE /\ lista_nos' = {}
    /\ IF alg = "leiden"
       THEN ComecarRefino(comunidades) /\ pc' = "refinar"
       ELSE UNCHANGED refVars /\ pc' = "fase_b"
    /\ UNCHANGED <<alg, G_orig, G, no_em_mapa_comunidade, melhor_particao_geral,
                   melhor_modularidade, modularidades_por_nivel,
                   particao_atual_mapeada, G_novo, nivel, dqVars>>

\* the stopping rule with < in place of <=
NaoMelhorouEstrito(modularidade_atual, melhor) == RatLT(modularidade_atual, melhor)

\* "if modularidade_atual <= melhor_modularidade": the level is rejected
NaoMelhorou(modularidade_atual, melhor) == RatLE(modularidade_atual, melhor)

\* the append made before melhor_modularidade is updated: the value recorded
\* is the best of the levels before
RegistrarNivelAnterior(historico, modularidade_atual, melhor_anterior) ==
    Append(historico, melhor_anterior)

\* "melhor_modularidade = modularidade_atual" and then
\* "modularidades_por_nivel.append(melhor_modularidade)"
RegistrarNivel(historico, modularidade_atual, melhor_anterior) ==
    Append(historico, modularidade_atual)

\* FASE B, C and D: back-mapping, the stopping rule, aggregation
AvaliarNivel ==
    /\ pc = "fase_b"
    /\ LET mapeada == MapearParaOriginais(no_em_mapa_comunidade, particao)
           modularidade_atual == calcular_modularidade(G_orig, mapeada)
           agregado == agrupar_grafo(G, particao)
       IN  /\ particao_atual_mapeada' = mapeada
           /\ IF NaoMelhorou(modularidade_atual, melhor_modularidade)
              THEN /\ pc' = "fim"
                   /\ UNCHANGED <<G, no_em_mapa_comunidade, melhor_particao_geral,
                                  melhor_modularidade, modularidades_por_nivel,
                                  G_novo>>
              ELSE /\ melhor_modularidade' = modularidade_atual
                   /\ melhor_particao_geral' = mapeada
                   /\ modularidades_por_nivel' =
                          RegistrarNivel(modularidades_por_nivel, modularidade_atual,
                                         melhor_modularidade)
                   /\ no_em_mapa_comunidade' = mapeada
                   /\ G_novo' = agregado
                   /\ IF Cardinality(agregado.nodes) = Cardinality(G.nodes)
                      THEN pc' = "fim" /\ UNCHANGED G
                      ELSE pc' = "nivel" /\ G' = agregado
    /\ UNCHANGED <<alg, G_orig, particao, nivel, lmVars, refVars, dqVars>>

\* input graphs of the level loop: main.py removes self-loops before the call
GrafosDeEntrada ==
    Grafos(FALSE, MaxTotal) \cup {DoisTriangulos, Caminho4, Caminho5, GrafoQuatro}

Init ==
    /\ alg \in {"leiden", "louvain"}
    /\ G_orig \in GrafosDeEntrada
    /\ G = G_orig
    /\ no_em_mapa_comunidade = Singleton(G_orig.nodes)
    /\ melhor_particao_geral = Singleton(G_orig.nodes)
    /\ melhor_modularidade = Rat(-1, 1)
    /\ modularidades_por_nivel = <<>>
    /\ particao = SemDict /\ particao_atual_mapeada = SemDict /\ G_novo = GrafoVazio
    /\ nivel = 0
    /\ pc = "nivel"
    /\ LMVazio /\ RefVazio /\ DqVazio

Next ==
    \/ IniciarNivel
    \/ LMNovaVarredura
    \/ LMVisitar
    \/ LMRetornarAoNivel
    \/ RefinarComunidade
    \/ RefinarJulgar
    \/ RefinarRetornar
    \/ AvaliarNivel

Spec == Init /\ [][Next]_vars

\* the program is sequential and never waits: a step that can be taken is taken
FairSpec == Spec /\ WF_vars(Next)

\* ------------------------------------------------- single function calls
NivelVazio ==
    /\ alg = "nenhum" /\ G_orig = GrafoVazio /\ no_em_mapa_comunidade = SemDict
    /\ melhor_particao_geral = SemDict /\ melhor_modularidade = Rat(0, 1)
    /\ modularidades_por_nivel = <<>> /\ particao_atual_mapeada = SemDict
    /\ nivel = 0

\* graphs a function of the core can be handed: aggregation makes self-loops
GrafosDeFuncao == Grafos(TRUE, MaxTotalFn)

\* one call calc_delta_q(G, particao, no_a_mover, id_comunidade_alvo)
InitDelta ==
    /\ G \in GrafosDeFuncao
    /\ particao \in [G.nodes -> G.nodes]
    /\ G_novo = GrafoVazio
    /\ pc = "calc_delta_q"
    /\ NivelVazio /\ LMVazio /\ RefVazio /\ DqVazio

ChamarCalcDeltaQ ==
    /\ pc = "calc_delta_q"
    /\ \E no \in G.nodes, alvo \in Range(particao) :
         /\ no_a_mover' = no
         /\ id_comunidade_alvo' = alvo
         /\ delta_q' = calc_delta_q(G, particao, no, alvo)
    /\ pc' = "calc_delta_q_ret"
    /\ UNCHANGED <<nivelVars, lmVars, refVars>>

SpecDelta == InitDelta /\ [][ChamarCalcDeltaQ]_vars

\* one call agrupar_grafo(G, particao)
InitAgrupar ==
    /\ G \in GrafosDeFuncao
    /\ particao \in [G.nodes -> G.nodes]
    /\ G_novo = GrafoVazio
    /\ pc = "agrupar_grafo"
    /\ NivelVazio /\ LMVazio /\ RefVazio /\ DqVazio

ChamarAgruparGrafo ==
    /\ pc = "agrupar_grafo"
    /\ G_novo' = agrupar_grafo(G, particao)
    /\ pc' = "agrupar_grafo_ret"
    /\ UNCHANGED <<alg, G_orig, G, no_em_mapa_comunidade, melhor_particao_geral,
                   melhor_modularidade, modularidades_por_nivel, particao,
                   particao_atual_mapeada, nivel, lmVars, refVars, dqVars>>

SpecAgrupar == InitAgrupar /\ [][ChamarAgruparGrafo]_vars

\* one call refinar_particao(G, particao_alvo), any partition of G's nodes
InitRefinar ==
    /\ G \in GrafosDeFuncao
    /\ \E p \in [G.nodes -> G.nodes] :
         /\ particao_alvo = p
         /\ particao_refinada_final = p
         /\ novo_id_comunidade = PrimeiroNovoId(p)
         /\ ids_comunidades = Range(p)
    /\ id_comunidade = 0
    /\ particao = SemDict /\ G_novo = GrafoVazio
    /\ pc = "refinar"
    /\ NivelVazio /\ LMVazio /\ DqVazio

NextRefinar ==
    \/ RefinarComunidade
    \/ LMNovaVarredura
    \/ LMVisitar
    \/ RefinarJulgar
    \/ RefinarRetornar

SpecRefinar == InitRefinar /\ [][NextRefinar]_vars

\* one call encontrar_movimentacao_local(H, G_completo, particao_inicial): H the
\* subgraph of G_completo on some of its nodes, particao_inicial any grouping
\* of the nodes (the function only compares community ids for equality).
\* G_completo is a small graph with or without self-loops, a 4-node input
\* graph, or the second-level graph of GrafoQuatro.
GrafosDeMovimentacao ==
    GrafosDeFuncao \cup {Caminho4, GrafoQuatro,
                         agrupar_grafo(GrafoQuatro, <<4, 3, 3, 4>>)}

InitMovimentacao ==
    /\ G \in GrafosDeMovimentacao
    /\ H \in (SUBSET G.nodes) \ {{}}
    /\ comunidades \in Agrupamentos(G.nodes)
    /\ melhorou = TRUE
    /\ lista_nos = {}
    /\ particao = SemDict /\ G_novo = GrafoVazio
    /\ pc = "lm_chamada"
    /\ NivelVazio /\ RefVazio /\ DqVazio

\* "return comunidades" to the caller of the single call
LMRetornar ==
    /\ pc = "lm_chamada" /\ LMTerminou
    /\ particao' = comunidades
    /\ pc' = "lm_chamada_ret"
    /\ UNCHANGED <<alg, G_orig, G, no_em_mapa_comunidade, melhor_particao_geral,
                   melhor_modularidade, modularidades_por_nivel,
                   particao_atual_mapeada, G_novo, nivel, lmVars, refVars, dqVars>>

NextMovimentacao ==
    \/ LMNovaVarredura
    \/ LMVisitar
    \/ LMRetornar

SpecMovimentacao == InitMovimentacao /\ [][NextMovimentacao]_vars

\* the call runs to its end: a step that can be taken is taken
FairSpecMovimentacao == SpecMovimentacao /\ WF_vars(NextMovimentacao)

\* ================================================================ claims
Mover(p, no, c) == [p EXCEPT ![no] = c]
Comunidades(p) == {nos_comunidade(p, c) : c \in Range(p)}

\* C1: for a move of node n to another community c held by some node,
\* calc_delta_q(G, P, n, c) equals modularity(G, P with n in c) - modularity(G, P),
\* on every weighted graph, self-loops included.
C1_LeiDeConsistencia ==
    (pc = "calc_delta_q_ret" /\ id_comunidade_alvo # particao[no_a_mover]) =>
        RatEq(delta_q,
              RatSub(calcular_modularidade(G, Mover(particao, no_a_mover, id_comunidade_alvo)),
                     calcular_modularidade(G, particao)))

\* C2: the partition leiden and louvain hold to return is total on the input
\* graph's nodes, and at every level each node the standing level mapping
\* names is a key of the level's partition, so back-mapping drops no node.
C2_ParticaoTotal ==
    /\ DOMAIN melhor_particao_geral = G_orig.nodes
    /\ DOMAIN no_em_mapa_comunidade = G_orig.nodes
    /\ pc = "fase_b" =>
          /\ \A o \in DOMAIN no_em_mapa_comunidade :
                no_em_mapa_comunidade[o] \in DOMAIN particao
          /\ DOMAIN MapearParaOriginais(no_em_mapa_comunidade, particao) = G_orig.nodes

\* a coarsened level is about to be mapped back to the original nodes
C2_Testemunha ==
    /\ pc = "fase_b" /\ nivel >= 2
    /\ DOMAIN particao # G_orig.nodes
    /\ Cardinality(DOMAIN particao) >= 2

\* C3: at every point of the level loop the modularity history is strictly
\* increasing.
C3_HistoricoCrescente ==
    \A i \in 1..(Len(modularidades_por_nivel) - 1) :
        RatLT(modularidades_por_nivel[i], modularidades_por_nivel[i + 1])

\* a second level was accepted
C3_Testemunha == Len(modularidades_por_nivel) >= 2

C5_RefinoNaoFunde ==
    pc \in {"refinar", "lm_refino"} =>
        /\ DOMAIN particao_refinada_final = DOMAIN particao_alvo
        /\ \A a, b \in DOMAIN particao_alvo :
              particao_alvo[a] # particao_alvo[b] =>
                  particao_refinada_final[a] # particao_refinada_final[b]

\* refinar_particao is about to return a partition in which it split a
\* community, the input having had several communities
C5_Testemunha ==
    /\ pc = "refinar" /\ ids_comunidades = {}
    /\ novo_id_comunidade > PrimeiroNovoId(particao_alvo)
    /\ Cardinality(Range(particao_alvo)) >= 2

\* C6: the aggregated graph has the total edge weight of the graph it was
\* built from, a self-loop counted once.
C6_PesoConservado ==
    pc = "agrupar_grafo_ret" => size(G_novo) = size(G)

\* an aggregation that made a self-loop out of an edge between two nodes and
\* kept an edge between two communities
C6_Testemunha ==
    /\ pc = "agrupar_grafo_ret"
    /\ \E u, v \in G.nodes : u # v /\ G.w[<<u, v>>] > 0 /\ particao[u] = particao[v]
    /\ \E c, d \in G_novo.nodes : c # d /\ G_novo.w[<<c, d>>] > 0

\* C7: for every partition P2 of the aggregated graph's nodes, the modularity
\* of P2 on the aggregated graph equals the modularity on G of the partition
\* that assigns node n the community P2[P[n]].
C7_ModularidadeEntreNiveis ==
    pc = "agrupar_grafo_ret" =>
        \A P2 \in Agrupamentos(G_novo.nodes) :
            RatEq(calcular_modularidade(G_novo, P2),
                  calcular_modularidade(G, [n \in G.nodes |-> P2[particao[n]]]))

\* an aggregated graph of two super-nodes or more, one of them with a self-loop
\* and an edge to another
C7_Testemunha ==
    /\ pc = "agrupar_grafo_ret"
    /\ \E c, d \in G_novo.nodes :
          c # d /\ G_novo.w[<<c, c>>] > 0 /\ G_novo.w[<<c, d>>] > 0

\* C8: the partition encontrar_movimentacao_local returns admits no move of a
\* node of H to the community of one of its H-neighbours that raises the
\* modularity on G.
C8_OtimoLocal ==
    (EmMovimentacao /\ LMTerminou) =>
        \A no \in H :
            \A c \in {comunidades[v] : v \in neighbors(G, H, no)} \ {comunidades[no]} :
                RatLE(calcular_modularidade(G, Mover(comunidades, no, c)),
                      calcular_modularidade(G, comunidades))

\* C9: on the two disjoint triangles both algorithms return, for every
\* visiting order, the two triangles as communities, of modularity 1/2, with
\* 1/2 the last entry of the history.
C9_DoisTriangulos ==
    (G_orig = DoisTriangulos /\ pc = "fim") =>
        /\ Comunidades(melhor_particao_geral) = {{1, 2, 3}, {4, 5, 6}}
        /\ RatEq(calcular_modularidade(G_orig, melhor_particao_geral), Rat(1, 2))
        /\ Len(modularidades_por_nivel) >= 1
        /\ RatEq(modularidades_por_nivel[Len(modularidades_por_nivel)], Rat(1, 2))

\* leiden returned on the two triangles
C9_Testemunha ==
    /\ G_orig = DoisTriangulos /\ pc = "fim" /\ alg = "leiden"
    /\ nivel = 2

\* C10: the trial partition refinar_particao hands to
\* encontrar_movimentacao_local differs from its input only on the members of
\* the community under test and has each member alone in its community.
C10_InicioSingleton ==
    [][(pc = "refinar" /\ pc' = "lm_refino") =>
          /\ \A x \in DOMAIN comunidades' \ H' : comunidades'[x] = particao_alvo[x]
          /\ \A no \in H' : \A x \in DOMAIN comunidades' \ {no} :
                comunidades'[x] # comunidades'[no]]_vars

C12_ParConsistente ==
    /\ [](pc = "fim" =>
             /\ Len(modularidades_por_nivel) >= 1
             /\ RatEq(modularidades_por_nivel[Len(modularidades_por_nivel)],
                      calcular_modularidade(G_orig, melhor_particao_geral)))
    /\ [][(pc = "fase_b" /\ RatLE(calcular_modularidade(G_orig, particao_atual_mapeada'),
                                  melhor_modularidade)) =>
             /\ pc' = "fim"
             /\ melhor_particao_geral' = melhor_particao_geral
             /\ modularidades_por_nivel' = modularidades_por_nivel]_vars

\* a run returned by the stopping rule at its third level: two levels were
\* accepted and the third was rejected
C12_Testemunha ==
    /\ pc = "fim" /\ nivel = 3
    /\ Len(modularidades_por_nivel) = 2

====
